---- MODULE Spec2Model ----
(***************************************************************************)
(* components/hal/include/hal/mipi_dsi_types.h                             *)
(*                                                                         *)
(* The header declares no function: its meaning is what a translation unit *)
(* that includes it ends up with. The model is the translation of the      *)
(* header, one directive or declaration per step, by the C preprocessor    *)
(* and compiler: the enumeration constants with the values C gives them,   *)
(* the storage size of each enumerated type, and the typedef aliases the   *)
(* conditional groups let through. The build configuration (the definition *)
(* of SOC_MIPI_DSI_SUPPORTED, and whether the consumer is C or C++) is the *)
(* input.                                                                  *)
(***************************************************************************)
EXTENDS Integers, Sequences, FiniteSets

\* Largest magnitude of the value SOC_MIPI_DSI_SUPPORTED is defined to.
MaxMacro == 2

(***************************************************************************)
(* The header, line by line. Every record carries the number of the source *)
(* line it is read from.                                                   *)
(***************************************************************************)

\* Lines 9-15: the includes and the opening of the C linkage block.
Prologue ==
    << [line |-> 9,  kind |-> "include", name |-> "stdint.h"],
       [line |-> 10, kind |-> "include", name |-> "soc/clk_tree_defs.h"],
       [line |-> 11, kind |-> "include", name |-> "esp_assert.h"],
       [line |-> 13, kind |-> "ifdef", name |-> "__cplusplus"],
       [line |-> 14, kind |-> "linkage_open", name |-> "C"],
       [line |-> 15, kind |-> "endif"] >>

\* Lines 20-48: typedef enum { ... } __attribute__((packed)) mipi_dsi_data_type_t;
DataTypeEnum ==
    << [line |-> 20, kind |-> "enum_open"],
       [line |-> 21, kind |-> "enumerator", name |-> "MIPI_DSI_DT_VSYNC_START", hasInit |-> TRUE, init |-> \h01],
       [line |-> 22, kind |-> "enumerator", name |-> "MIPI_DSI_DT_VSYNC_END", hasInit |-> TRUE, init |-> \h11],
       [line |-> 23, kind |-> "enumerator", name |-> "MIPI_DSI_DT_HSYNC_START", hasInit |-> TRUE, init |-> \h21],
       [line |-> 24, kind |-> "enumerator", name |-> "MIPI_DSI_DT_HSYNC_END", hasInit |-> TRUE, init |-> \h31],
       [line |-> 25, kind |-> "enumerator", name |-> "MIPI_DSI_DT_EOT_PACKET", hasInit |-> TRUE, init |-> \h08],
       [line |-> 26, kind |-> "enumerator", name |-> "MIPI_DSI_DT_COLOR_MODE_OFF", hasInit |-> TRUE, init |-> \h02],
       [line |-> 27, kind |-> "enumerator", name |-> "MIPI_DSI_DT_COLOR_MODE_ON", hasInit |-> TRUE, init |-> \h12],
       [line |-> 28, kind |-> "enumerator", name |-> "MIPI_DSI_DT_SHUTDOWN_PERIPHERAL", hasInit |-> TRUE, init |-> \h22],
       [line |-> 29, kind |-> "enumerator", name |-> "MIPI_DSI_DT_TURN_ON_PERIPHERAL", hasInit |-> TRUE, init |-> \h32],
       [line |-> 30, kind |-> "enumerator", name |-> "MIPI_DSI_DT_GENERIC_SHORT_WRITE_0", hasInit |-> TRUE, init |-> \h03],
       [line |-> 31, kind |-> "enumerator", name |-> "MIPI_DSI_DT_GENERIC_SHORT_WRITE_1", hasInit |-> TRUE, init |-> \h13],
       [line |-> 32, kind |-> "enumerator", name |-> "MIPI_DSI_DT_GENERIC_SHORT_WRITE_2", hasInit |-> TRUE, init |-> \h23],
       [line |-> 33, kind |-> "enumerator", name |-> "MIPI_DSI_DT_GENERIC_READ_REQUEST_0", hasInit |-> TRUE, init |-> \h04],
       [line |-> 34, kind |-> "enumerator", name |-> "MIPI_DSI_DT_GENERIC_READ_REQUEST_1", hasInit |-> TRUE, init |-> \h14],
       [line |-> 35, kind |-> "enumerator", name |-> "MIPI_DSI_DT_GENERIC_READ_REQUEST_2", hasInit |-> TRUE, init |-> \h24],
       [line |-> 36, kind |-> "enumerator", name |-> "MIPI_DSI_DT_DCS_SHORT_WRITE_0", hasInit |-> TRUE, init |-> \h05],
       [line |-> 37, kind |-> "enumerator", name |-> "MIPI_DSI_DT_DCS_SHORT_WRITE_1", hasInit |-> TRUE, init |-> \h15],
       [line |-> 38, kind |-> "enumerator", name |-> "MIPI_DSI_DT_DCS_READ_0", hasInit |-> TRUE, init |-> \h06],
       [line |-> 39, kind |-> "enumerator", name |-> "MIPI_DSI_DT_SET_MAXIMUM_RETURN_PKT", hasInit |-> TRUE, init |-> \h37],
       [line |-> 40, kind |-> "enumerator", name |-> "MIPI_DSI_DT_NULL_PACKET", hasInit |-> TRUE, init |-> \h09],
       [line |-> 41, kind |-> "enumerator", name |-> "MIPI_DSI_DT_BLANKING_PACKET", hasInit |-> TRUE, init |-> \h19],
       [line |-> 42, kind |-> "enumerator", name |-> "MIPI_DSI_DT_GENERIC_LONG_WRITE", hasInit |-> TRUE, init |-> \h29],
       [line |-> 43, kind |-> "enumerator", name |-> "MIPI_DSI_DT_DCS_LONG_WRITE", hasInit |-> TRUE, init |-> \h39],
       [line |-> 44, kind |-> "enumerator", name |-> "MIPI_DSI_DT_PACKED_PIXEL_STREAM_RGB_16", hasInit |-> TRUE, init |-> \h0E],
       [line |-> 45, kind |-> "enumerator", name |-> "MIPI_DSI_DT_PACKED_PIXEL_STREAM_RGB_18", hasInit |-> TRUE, init |-> \h1E],
       [line |-> 46, kind |-> "enumerator", name |-> "MIPI_DSI_DT_LOOSELY_PIXEL_STREAM_RGB_18", hasInit |-> TRUE, init |-> \h2E],
       [line |-> 47, kind |-> "enumerator", name |-> "MIPI_DSI_DT_PACKED_PIXEL_STREAM_RGB_24", hasInit |-> TRUE, init |-> \h3E],
       [line |-> 48, kind |-> "enum_close", name |-> "mipi_dsi_data_type_t", packed |-> TRUE] >>

\* Lines 53-58: typedef enum { ... } mipi_dsi_pattern_type_t; no initialisers.
PatternEnum ==
    << [line |-> 53, kind |-> "enum_open"],
       [line |-> 54, kind |-> "enumerator", name |-> "MIPI_DSI_PATTERN_NONE", hasInit |-> FALSE, init |-> 0],
       [line |-> 55, kind |-> "enumerator", name |-> "MIPI_DSI_PATTERN_BAR_VERTICAL", hasInit |-> FALSE, init |-> 0],
       [line |-> 56, kind |-> "enumerator", name |-> "MIPI_DSI_PATTERN_BAR_HORIZONTAL", hasInit |-> FALSE, init |-> 0],
       [line |-> 57, kind |-> "enumerator", name |-> "MIPI_DSI_PATTERN_BER_VERTICAL", hasInit |-> FALSE, init |-> 0],
       [line |-> 58, kind |-> "enum_close", name |-> "mipi_dsi_pattern_type_t", packed |-> FALSE] >>

\* Lines 60-73: the clock-source aliases under #if SOC_MIPI_DSI_SUPPORTED.
ClockSources ==
    << [line |-> 60, kind |-> "if", name |-> "SOC_MIPI_DSI_SUPPORTED"],
       [line |-> 64, kind |-> "typedef", name |-> "mipi_dsi_phy_clock_source_t",
                     target |-> "soc_periph_mipi_dsi_phy_clk_src_t"],
       [line |-> 69, kind |-> "typedef", name |-> "mipi_dsi_dpi_clock_source_t",
                     target |-> "soc_periph_mipi_dsi_dpi_clk_src_t"],
       [line |-> 70, kind |-> "else"],
       [line |-> 71, kind |-> "typedef", name |-> "mipi_dsi_phy_clock_source_t", target |-> "int"],
       [line |-> 72, kind |-> "typedef", name |-> "mipi_dsi_dpi_clock_source_t", target |-> "int"],
       [line |-> 73, kind |-> "endif"] >>

\* Lines 75-77: the closing of the C linkage block.
Epilogue ==
    << [line |-> 75, kind |-> "ifdef", name |-> "__cplusplus"],
       [line |-> 76, kind |-> "linkage_close"],
       [line |-> 77, kind |-> "endif"] >>

(***************************************************************************)
(* Variants of the header, each with one slip of the kind an edit of the   *)
(* enumerations could make. The properties below are checked to reject     *)
(* every one of them.                                                      *)
(***************************************************************************)

\* Line 24 mistyped: MIPI_DSI_DT_HSYNC_END = 0x30.
HeaderHsyncEndMistyped ==
    Prologue \o [DataTypeEnum EXCEPT ![5].init = \h30]
        \o PatternEnum \o ClockSources \o Epilogue

\* Lines 55 and 56 exchanged: BAR_HORIZONTAL declared before BAR_VERTICAL.
HeaderPatternExchanged ==
    Prologue \o DataTypeEnum
        \o [PatternEnum EXCEPT ![3].name = "MIPI_DSI_PATTERN_BAR_HORIZONTAL",
                               ![4].name = "MIPI_DSI_PATTERN_BAR_VERTICAL"]
        \o ClockSources \o Epilogue

\* Line 43 with a digit too many: MIPI_DSI_DT_DCS_LONG_WRITE = 0x139.
HeaderLongWriteWide ==
    Prologue \o [DataTypeEnum EXCEPT ![24].init = \h139]
        \o PatternEnum \o ClockSources \o Epilogue

\* Line 43 copied from line 42: MIPI_DSI_DT_DCS_LONG_WRITE = 0x29.
HeaderLongWriteCopied ==
    Prologue \o [DataTypeEnum EXCEPT ![24].init = \h29]
        \o PatternEnum \o ClockSources \o Epilogue

\* Line 21 without its initialiser: MIPI_DSI_DT_VSYNC_START takes the value 0.
HeaderVsyncStartImplicit ==
    Prologue \o [DataTypeEnum EXCEPT ![2].hasInit = FALSE]
        \o PatternEnum \o ClockSources \o Epilogue

\* Line 37 in the wrong family column: MIPI_DSI_DT_DCS_SHORT_WRITE_1 = 0x16.
HeaderShortWriteFamily ==
    Prologue \o [DataTypeEnum EXCEPT ![18].init = \h16]
        \o PatternEnum \o ClockSources \o Epilogue

\* The whole header in source order.
Header == Prologue \o DataTypeEnum \o PatternEnum \o ClockSources \o Epilogue

(***************************************************************************)
(* The build configuration and the translation state.                      *)
(***************************************************************************)
VARIABLES
    macro,        \* SOC_MIPI_DSI_SUPPORTED: [defined, value] as the build sets it
    cplusplus,    \* whether __cplusplus is defined (a C++ consumer)
    pc,           \* index in Header of the next line to translate
    skipping,     \* TRUE inside a conditional group the preprocessor skips
    linkage,      \* stack of language linkages, innermost last
    included,     \* headers included so far
    enumCount,    \* number of enum specifiers opened so far
    nextValue,    \* value of the next enumerator that has no initialiser
    enumerators,  \* enumeration constant -> [tag, value]
    enums,        \* enumerated type name -> [tag, packed, size]
    typedefs      \* the alias declarations compiled, in order

vars == << macro, cplusplus, pc, skipping, linkage, included, enumCount,
           nextValue, enumerators, enums, typedefs >>

\* The ways a build can set SOC_MIPI_DSI_SUPPORTED: not defined at all, or
\* defined to an integer (soc_caps.h defines capabilities to a number).
MacroSettings ==
    {[defined |-> FALSE, value |-> 0]}
        \cup {[defined |-> TRUE, value |-> v] : v \in (0 - MaxMacro)..MaxMacro}

\* Line 60, #if SOC_MIPI_DSI_SUPPORTED: an identifier that is not a defined
\* macro evaluates to 0, and the group is compiled iff the value is non-zero.
IfTaken(m) == (IF m.defined THEN m.value ELSE 0) # 0

\* Lines 13 and 75, #ifdef __cplusplus: the group is compiled iff defined.
IfdefTaken(cpp) == cpp

\* The value C gives an enumeration constant: its initialiser when it has
\* one (lines 21-47), otherwise one more than the previous constant, and 0
\* for the first (lines 54-57); `next` carries that running value.
EnumValue(item, next) == IF item.hasInit THEN item.init ELSE next

\* Bytes of storage of an enumerated type. __attribute__((packed)) (line 48)
\* selects the smallest integer type that holds every value; without it
\* (line 58) the type is as wide as int.
EnumSize(packed, values) ==
    IF ~packed THEN 4
    ELSE IF (\A v \in values : 0 <= v /\ v < 2^8)
            \/ (\A v \in values : 0 - 2^7 <= v /\ v < 2^7) THEN 1
    ELSE IF (\A v \in values : 0 <= v /\ v < 2^16)
            \/ (\A v \in values : 0 - 2^15 <= v /\ v < 2^15) THEN 2
    ELSE 4

\* The constants declared in the enum specifier numbered `tag`.
MembersOfTag(tag) == {n \in DOMAIN enumerators : enumerators[n].tag = tag}

\* The constants of the enumerated type named `type`, once it is declared.
MembersOf(type) ==
    IF type \in DOMAIN enums THEN MembersOfTag(enums[type].tag) ELSE {}

\* The targets the alias `alias` has been declared with.
AliasTargets(alias) ==
    {typedefs[i].target : i \in {j \in 1..Len(typedefs) : typedefs[j].alias = alias}}

\* How many declarations of `alias` were compiled.
AliasCount(alias) ==
    Cardinality({j \in 1..Len(typedefs) : typedefs[j].alias = alias})

\* The translation unit has been read to the end of the header.
Translated == pc = Len(Header) + 1

\* The line about to be translated is of kind `kind`.
AtLine(kind) == pc <= Len(Header) /\ Header[pc].kind = kind

Init ==
    /\ macro \in MacroSettings
    /\ cplusplus \in BOOLEAN
    /\ pc = 1
    /\ skipping = FALSE
    /\ linkage = << IF cplusplus THEN "C++" ELSE "C" >>
    /\ included = {}
    /\ enumCount = 0
    /\ nextValue = 0
    /\ enumerators = << >>
    /\ enums = << >>
    /\ typedefs = << >>

\* A line inside a skipped group is passed over (lines 14, 64-69 or 71-72, 76).
SkipLine ==
    /\ pc <= Len(Header)
    /\ skipping
    /\ Header[pc].kind \notin {"else", "endif"}
    /\ pc' = pc + 1
    /\ UNCHANGED << macro, cplusplus, skipping, linkage, included, enumCount,
                    nextValue, enumerators, enums, typedefs >>

\* Lines 9-11: #include.
Include ==
    /\ AtLine("include")
    /\ ~skipping
    /\ included' = included \cup {Header[pc].name}
    /\ pc' = pc + 1
    /\ UNCHANGED << macro, cplusplus, skipping, linkage, enumCount,
                    nextValue, enumerators, enums, typedefs >>

\* Lines 13 and 75: #ifdef __cplusplus.
PreprocessIfdef ==
    /\ AtLine("ifdef")
    /\ ~skipping
    /\ skipping' = ~IfdefTaken(cplusplus)
    /\ pc' = pc + 1
    /\ UNCHANGED << macro, cplusplus, linkage, included, enumCount,
                    nextValue, enumerators, enums, typedefs >>

\* Line 60 read as #ifdef: the first group is compiled whenever the macro is
\* defined, whatever its value.
PreprocessIfAsIfdef ==
    /\ AtLine("if")
    /\ ~skipping
    /\ skipping' = ~macro.defined
    /\ pc' = pc + 1
    /\ UNCHANGED << macro, cplusplus, linkage, included, enumCount,
                    nextValue, enumerators, enums, typedefs >>

\* Line 60: #if SOC_MIPI_DSI_SUPPORTED.
PreprocessIf ==
    /\ AtLine("if")
    /\ ~skipping
    /\ skipping' = ~IfTaken(macro)
    /\ pc' = pc + 1
    /\ UNCHANGED << macro, cplusplus, linkage, included, enumCount,
                    nextValue, enumerators, enums, typedefs >>

\* Line 70 without effect: the second group is treated like the first.
PreprocessElseIgnored ==
    /\ AtLine("else")
    /\ skipping' = skipping
    /\ pc' = pc + 1
    /\ UNCHANGED << macro, cplusplus, linkage, included, enumCount,
                    nextValue, enumerators, enums, typedefs >>

\* Line 70: #else compiles the second group iff the first was skipped.
PreprocessElse ==
    /\ AtLine("else")
    /\ skipping' = ~skipping
    /\ pc' = pc + 1
    /\ UNCHANGED << macro, cplusplus, linkage, included, enumCount,
                    nextValue, enumerators, enums, typedefs >>

\* Lines 15, 73, 77: #endif ends the conditional; compilation resumes.
PreprocessEndif ==
    /\ AtLine("endif")
    /\ skipping' = FALSE
    /\ pc' = pc + 1
    /\ UNCHANGED << macro, cplusplus, linkage, included, enumCount,
                    nextValue, enumerators, enums, typedefs >>

\* Line 14: extern "C" {
OpenLinkage ==
    /\ AtLine("linkage_open")
    /\ ~skipping
    /\ linkage' = Append(linkage, Header[pc].name)
    /\ pc' = pc + 1
    /\ UNCHANGED << macro, cplusplus, skipping, included, enumCount,
                    nextValue, enumerators, enums, typedefs >>

\* Line 76: } closing extern "C".
CloseLinkage ==
    /\ AtLine("linkage_close")
    /\ ~skipping
    /\ linkage' = SubSeq(linkage, 1, Len(linkage) - 1)
    /\ pc' = pc + 1
    /\ UNCHANGED << macro, cplusplus, skipping, included, enumCount,
                    nextValue, enumerators, enums, typedefs >>

\* Lines 20 and 53: typedef enum { starts a new enumeration at value 0.
OpenEnum ==
    /\ AtLine("enum_open")
    /\ ~skipping
    /\ enumCount' = enumCount + 1
    /\ nextValue' = 0
    /\ pc' = pc + 1
    /\ UNCHANGED << macro, cplusplus, skipping, linkage, included,
                    enumerators, enums, typedefs >>

\* Lines 21-47 and 54-57: one enumeration constant.
DeclareEnumerator ==
    /\ AtLine("enumerator")
    /\ ~skipping
    /\ LET item == Header[pc]
           v == EnumValue(item, nextValue)
       IN /\ enumerators' =
                [n \in DOMAIN enumerators \cup {item.name} |->
                    IF n = item.name THEN [tag |-> enumCount, value |-> v]
                    ELSE enumerators[n]]
          /\ nextValue' = v + 1
    /\ pc' = pc + 1
    /\ UNCHANGED << macro, cplusplus, skipping, linkage, included, enumCount,
                    enums, typedefs >>

\* Lines 48 and 58: } [__attribute__((packed))] name; names the enumerated
\* type and fixes its storage size.
CloseEnum ==
    /\ AtLine("enum_close")
    /\ ~skipping
    /\ LET item == Header[pc]
           values == {enumerators[n].value : n \in MembersOfTag(enumCount)}
       IN enums' =
            [t \in DOMAIN enums \cup {item.name} |->
                IF t = item.name
                THEN [tag |-> enumCount, packed |-> item.packed,
                      size |-> EnumSize(item.packed, values)]
                ELSE enums[t]]
    /\ pc' = pc + 1
    /\ UNCHANGED << macro, cplusplus, skipping, linkage, included, enumCount,
                    nextValue, enumerators, typedefs >>

\* Lines 64, 69, 71, 72: typedef <target> <alias>;
DeclareTypedef ==
    /\ AtLine("typedef")
    /\ ~skipping
    /\ typedefs' = Append(typedefs, [alias |-> Header[pc].name,
                                     target |-> Header[pc].target,
                                     line |-> Header[pc].line])
    /\ pc' = pc + 1
    /\ UNCHANGED << macro, cplusplus, skipping, linkage, included, enumCount,
                    nextValue, enumerators, enums >>

Next ==
    \/ SkipLine
    \/ Include
    \/ PreprocessIfdef
    \/ PreprocessIf
    \/ PreprocessElse
    \/ PreprocessEndif
    \/ OpenLinkage
    \/ CloseLinkage
    \/ OpenEnum
    \/ DeclareEnumerator
    \/ CloseEnum
    \/ DeclareTypedef

Spec == Init /\ [][Next]_vars

(***************************************************************************)
(* Properties.                                                             *)
(***************************************************************************)

\* The data-type codes of the MIPI DSI specification, as the interface
\* documents them: << constant, code >>.
SpecifiedCodes ==
    << << "MIPI_DSI_DT_VSYNC_START", \h01 >>,
       << "MIPI_DSI_DT_VSYNC_END", \h11 >>,
       << "MIPI_DSI_DT_HSYNC_START", \h21 >>,
       << "MIPI_DSI_DT_HSYNC_END", \h31 >>,
       << "MIPI_DSI_DT_EOT_PACKET", \h08 >>,
       << "MIPI_DSI_DT_COLOR_MODE_OFF", \h02 >>,
       << "MIPI_DSI_DT_COLOR_MODE_ON", \h12 >>,
       << "MIPI_DSI_DT_SHUTDOWN_PERIPHERAL", \h22 >>,
       << "MIPI_DSI_DT_TURN_ON_PERIPHERAL", \h32 >>,
       << "MIPI_DSI_DT_GENERIC_SHORT_WRITE_0", \h03 >>,
       << "MIPI_DSI_DT_GENERIC_SHORT_WRITE_1", \h13 >>,
       << "MIPI_DSI_DT_GENERIC_SHORT_WRITE_2", \h23 >>,
       << "MIPI_DSI_DT_GENERIC_READ_REQUEST_0", \h04 >>,
       << "MIPI_DSI_DT_GENERIC_READ_REQUEST_1", \h14 >>,
       << "MIPI_DSI_DT_GENERIC_READ_REQUEST_2", \h24 >>,
       << "MIPI_DSI_DT_DCS_SHORT_WRITE_0", \h05 >>,
       << "MIPI_DSI_DT_DCS_SHORT_WRITE_1", \h15 >>,
       << "MIPI_DSI_DT_DCS_READ_0", \h06 >>,
       << "MIPI_DSI_DT_SET_MAXIMUM_RETURN_PKT", \h37 >>,
       << "MIPI_DSI_DT_NULL_PACKET", \h09 >>,
       << "MIPI_DSI_DT_BLANKING_PACKET", \h19 >>,
       << "MIPI_DSI_DT_GENERIC_LONG_WRITE", \h29 >>,
       << "MIPI_DSI_DT_DCS_LONG_WRITE", \h39 >>,
       << "MIPI_DSI_DT_PACKED_PIXEL_STREAM_RGB_16", \h0E >>,
       << "MIPI_DSI_DT_PACKED_PIXEL_STREAM_RGB_18", \h1E >>,
       << "MIPI_DSI_DT_LOOSELY_PIXEL_STREAM_RGB_18", \h2E >>,
       << "MIPI_DSI_DT_PACKED_PIXEL_STREAM_RGB_24", \h3E >> >>

SpecifiedNames == {SpecifiedCodes[i][1] : i \in 1..Len(SpecifiedCodes)}

DataType == "mipi_dsi_data_type_t"
PatternType == "mipi_dsi_pattern_type_t"
PhyAlias == "mipi_dsi_phy_clock_source_t"
DpiAlias == "mipi_dsi_dpi_clock_source_t"

\* C1: each of the 27 members of mipi_dsi_data_type_t has the numeric value
\* the MIPI DSI specification gives it: a declared member never has another
\* value, and the declared type has exactly the 27 specified members.
C1_SpecifiedValues ==
    /\ \A i \in 1..Len(SpecifiedCodes) :
          SpecifiedCodes[i][1] \in DOMAIN enumerators
              => enumerators[SpecifiedCodes[i][1]].value = SpecifiedCodes[i][2]
    /\ DataType \in DOMAIN enums
          => /\ MembersOf(DataType) = SpecifiedNames
             /\ Cardinality(MembersOf(DataType)) = 27

C1_Witness ==
    /\ Translated
    /\ Cardinality(MembersOf(DataType)) = 27
    /\ enumerators["MIPI_DSI_DT_VSYNC_START"].value = \h01
    /\ enumerators["MIPI_DSI_DT_DCS_LONG_WRITE"].value = \h39
    /\ enumerators["MIPI_DSI_DT_PACKED_PIXEL_STREAM_RGB_24"].value = \h3E

\* The pattern identifiers in their stated order.
PatternOrder ==
    << "MIPI_DSI_PATTERN_NONE", "MIPI_DSI_PATTERN_BAR_VERTICAL",
       "MIPI_DSI_PATTERN_BAR_HORIZONTAL", "MIPI_DSI_PATTERN_BER_VERTICAL" >>

\* C2: mipi_dsi_pattern_type_t has exactly the four members NONE,
\* BAR_VERTICAL, BAR_HORIZONTAL, BER_VERTICAL, and, declared in that order
\* without initialisers, they have the consecutive values 0, 1, 2, 3.
C2_PatternMembers ==
    /\ \A i \in 1..4 :
          PatternOrder[i] \in DOMAIN enumerators
              => enumerators[PatternOrder[i]].value = i - 1
    /\ PatternType \in DOMAIN enums
          => /\ MembersOf(PatternType) = {PatternOrder[i] : i \in 1..4}
             /\ {enumerators[n].value : n \in MembersOf(PatternType)} = 0..3

C2_Witness ==
    /\ Translated
    /\ Cardinality(MembersOf(PatternType)) = 4
    /\ enumerators["MIPI_DSI_PATTERN_NONE"].value = 0
    /\ enumerators["MIPI_DSI_PATTERN_BER_VERTICAL"].value = 3

\* SOC_MIPI_DSI_SUPPORTED is enabled: defined, to a non-zero value.
MacroEnabled == macro.defined /\ macro.value # 0

\* C3: once the header is translated, the two clock-source aliases name the
\* platform types soc_periph_mipi_dsi_phy_clk_src_t and
\* soc_periph_mipi_dsi_dpi_clk_src_t when SOC_MIPI_DSI_SUPPORTED is enabled,
\* and int otherwise (defined to 0, or not defined).
C3_AliasTargets ==
    Translated =>
        IF MacroEnabled
        THEN /\ AliasTargets(PhyAlias) = {"soc_periph_mipi_dsi_phy_clk_src_t"}
             /\ AliasTargets(DpiAlias) = {"soc_periph_mipi_dsi_dpi_clk_src_t"}
        ELSE /\ AliasTargets(PhyAlias) = {"int"}
             /\ AliasTargets(DpiAlias) = {"int"}

C3_Witness ==
    /\ Translated
    /\ MacroEnabled
    /\ AliasTargets(PhyAlias) = {"soc_periph_mipi_dsi_phy_clk_src_t"}
    /\ AliasTargets(DpiAlias) = {"soc_periph_mipi_dsi_dpi_clk_src_t"}

\* The enumeration constants and enumerated types of the translated header,
\* written without reference to the build configuration.
TranslatedEnumerators ==
    [n \in SpecifiedNames \cup {PatternOrder[i] : i \in 1..4} |->
        IF n \in SpecifiedNames
        THEN [tag |-> 1,
              value |-> SpecifiedCodes[CHOOSE i \in 1..Len(SpecifiedCodes) :
                                          SpecifiedCodes[i][1] = n][2]]
        ELSE [tag |-> 2,
              value |-> (CHOOSE i \in 1..4 : PatternOrder[i] = n) - 1]]

TranslatedEnums ==
    [t \in {DataType, PatternType} |->
        IF t = DataType THEN [tag |-> 1, packed |-> TRUE, size |-> 1]
        ELSE [tag |-> 2, packed |-> FALSE, size |-> 4]]

\* C4: for every setting of SOC_MIPI_DSI_SUPPORTED (defined non-zero, defined
\* zero, undefined) each of the two aliases is declared exactly once in the
\* translated header (and never more than once on the way), and the two
\* enumerations come out the same whatever the setting.
C4_BothBranches ==
    /\ AliasCount(PhyAlias) <= 1
    /\ AliasCount(DpiAlias) <= 1
    /\ Translated
          => /\ AliasCount(PhyAlias) = 1
             /\ AliasCount(DpiAlias) = 1
             /\ enumerators = TranslatedEnumerators
             /\ enums = TranslatedEnums

C4_Witness ==
    /\ Translated
    /\ ~MacroEnabled
    /\ AliasCount(PhyAlias) = 1
    /\ AliasCount(DpiAlias) = 1
    /\ Len(typedefs) = 2
    /\ enumerators = TranslatedEnumerators

\* C5: every member of mipi_dsi_data_type_t has a value in 0..255, unchanged
\* by reduction modulo 2^8, and the packed type occupies a single byte.
C5_EightBit ==
    /\ \A n \in MembersOf(DataType) :
          /\ enumerators[n].value \in 0..255
          /\ enumerators[n].value % 2^8 = enumerators[n].value
    /\ DataType \in DOMAIN enums => enums[DataType].size = 1

C5_Witness ==
    /\ Translated
    /\ enums[DataType].packed
    /\ enums[DataType].size = 1
    /\ enumerators["MIPI_DSI_DT_PACKED_PIXEL_STREAM_RGB_24"].value % 2^8 = \h3E

\* C7: the members of mipi_dsi_data_type_t have pairwise distinct values, so
\* the 27 names map to 27 codes.
C7_Injective ==
    /\ \A a, b \in MembersOf(DataType) :
          a # b => enumerators[a].value # enumerators[b].value
    /\ DataType \in DOMAIN enums
          => Cardinality({enumerators[n].value : n \in MembersOf(DataType)}) = 27

C7_Witness ==
    /\ Translated
    /\ Cardinality(MembersOf(DataType)) = 27
    /\ Cardinality({enumerators[n].value : n \in MembersOf(DataType)}) = 27

\* C8: every member of mipi_dsi_data_type_t has a value in 0x01..0x3F: it is
\* non-zero and the two top bits of its byte (the virtual channel) are clear.
C8_SixBit ==
    \A n \in MembersOf(DataType) :
        /\ enumerators[n].value \in \h01..\h3F
        /\ enumerators[n].value \div 2^6 = 0

C8_Witness ==
    /\ Translated
    /\ \E n \in MembersOf(DataType) : enumerators[n].value = \h01
    /\ \E n \in MembersOf(DataType) : enumerators[n].value = \h3E

\* The parameter-counted packet families: << constant, family base, number of
\* parameter bytes named in the constant >>.
ParameterFamilies ==
    << << "MIPI_DSI_DT_GENERIC_SHORT_WRITE_0", \h03, 0 >>,
       << "MIPI_DSI_DT_GENERIC_SHORT_WRITE_1", \h03, 1 >>,
       << "MIPI_DSI_DT_GENERIC_SHORT_WRITE_2", \h03, 2 >>,
       << "MIPI_DSI_DT_GENERIC_READ_REQUEST_0", \h04, 0 >>,
       << "MIPI_DSI_DT_GENERIC_READ_REQUEST_1", \h04, 1 >>,
       << "MIPI_DSI_DT_GENERIC_READ_REQUEST_2", \h04, 2 >>,
       << "MIPI_DSI_DT_DCS_SHORT_WRITE_0", \h05, 0 >>,
       << "MIPI_DSI_DT_DCS_SHORT_WRITE_1", \h05, 1 >>,
       << "MIPI_DSI_DT_DCS_READ_0", \h06, 0 >> >>

\* C9: in the parameter-counted families the code is family base + 0x10 * n:
\* the low nibble is the family and the high nibble the parameter count.
C9_FamilyArithmetic ==
    /\ \A i \in 1..Len(ParameterFamilies) :
          LET name == ParameterFamilies[i][1]
              base == ParameterFamilies[i][2]
              n    == ParameterFamilies[i][3]
          IN name \in DOMAIN enumerators
                => /\ enumerators[name].value = base + \h10 * n
                   /\ enumerators[name].value % 16 = base
                   /\ enumerators[name].value \div 16 = n
    /\ DataType \in DOMAIN enums
          => \A i \in 1..Len(ParameterFamilies) :
                ParameterFamilies[i][1] \in MembersOf(DataType)

C9_Witness ==
    /\ Translated
    /\ enumerators["MIPI_DSI_DT_GENERIC_SHORT_WRITE_2"].value = \h03 + \h10 * 2
    /\ enumerators["MIPI_DSI_DT_GENERIC_READ_REQUEST_2"].value = \h04 + \h10 * 2
    /\ enumerators["MIPI_DSI_DT_DCS_SHORT_WRITE_1"].value = \h05 + \h10 * 1
    /\ enumerators["MIPI_DSI_DT_DCS_READ_0"].value = \h06

====
